---- MODULE Spec2Model ----
(***************************************************************************)
(* Model of the two load-balancer programs of the repository:             *)
(*   "LC"  src/loadBalancer.js            (least connections)             *)
(*   "RR"  src/unnamed/part_000:120-308   (round robin, with the reaper)  *)
(* and of healthCheck (src/unnamed/part_000:4-15), which both use.        *)
(* One request is handled by the whole middleware chain in one step       *)
(* (blocked-IP check, rate limiter, proxy handler up to proxy.web); the   *)
(* forward itself completes in a later step.                              *)
(***************************************************************************)
EXTENDS Integers, Sequences, FiniteSets, TLC

\* ------------------------------------------------------------------ bounds
MaxRequests == 3
MaxInFlight == 2
MaxTicks == 3
Headroom == 2
MaxBurst == 5

\* --------------------------------------------------------------- constants
NumServers == 2
RATE_LIMIT == 100
TIME_WINDOW == 60 * 1000
BlockSize == 16
null == -1
NoCookie == -2
Garbled == BlockSize
NoServer == 0

Variants == {"LC", "RR"}
Clients == {"c1", "c2"}
Servers == 1 .. NumServers
ServerSeq == [i \in 1 .. NumServers |-> i]
Url(s) == s
TickStep == TIME_WINDOW \div 2
IVs == {0}
ProbeResults == {200, 204, 500, 0}

VARIABLES
  variant,             \* which program runs
  IV,                  \* crypto.randomBytes(16), drawn once per process
  now,                 \* Date.now()
  requestCounts,       \* Map ip -> {count, startTime}
  blockedIPs,          \* Set of ips
  active,              \* servers[i].active
  connections,         \* servers[i].connections (LC only)
  currentServerIndex,  \* RR cursor
  pending,             \* forwards handed to proxy.web and not yet completed
  hc,                  \* the servers whose probe some running healthCheck invocation awaits
  last,                \* observation: the request handled by the step just taken, if any
  sent,                \* history: requests a client sent since its record's startTime was set
  issued,              \* history: <<server, token>> pairs a client got by Set-Cookie
  prevSel,             \* history: server of the previous policy selection, 0 after an availability change
  nreq                 \* history: requests handled so far

vars == <<variant, IV, now, requestCounts, blockedIPs, active, connections,
          currentServerIndex, pending, hc, last, sent, issued, prevSel, nreq>>

\* ------------------------------------------------------------ AffinityCodec
\* A 1-block CBC cipher over 0..BlockSize-1: the key is fixed (an affine
\* permutation and its inverse), the IV is the process's; a plaintext is the
\* url followed by padding.
Cipher(b) == (5 * b + 3) % BlockSize
Decipher(b) == (13 * (b + 13)) % BlockSize
\* mutant: the plaintext is the url that follows
PadNext(u) == 4 * (u + 1) + 1

Pad(u) == 4 * u + 1

\* mutant: the cipher is run without the IV
encryptNoIV(text) == Cipher(Pad(text))

encrypt(text) == Cipher((Pad(text) + IV) % BlockSize)

\* mutant: the padding of the deciphered block is not verified
decryptUnpadded(text) ==
  IF text \notin 0 .. (BlockSize - 1) THEN null
  ELSE ((Decipher(text) + BlockSize - IV) % BlockSize) \div 4

decrypt(text) ==
  IF text \notin 0 .. (BlockSize - 1) THEN null
  ELSE LET p == (Decipher(text) + BlockSize - IV) % BlockSize
       IN IF p % 4 # 1 THEN null ELSE p \div 4

\* ---------------------------------------------------------------- AbuseGuard
\* mutant: the blocked-IP check lets a blocked ip through once its window elapsed
IsBlockedInWindow(ip) ==
  ip \in blockedIPs /\ ~(now - requestCounts[ip].startTime > TIME_WINDOW)

\* mutant: the blocked-IP middleware is missing
IsBlockedNever(ip) == FALSE

IsBlocked(ip) == ip \in blockedIPs

WindowElapsed(t, startTime) == t - startTime > TIME_WINDOW

\* mutant: the limit is compared with >=
OverLimitAtLimit(count) == count >= RATE_LIMIT

OverLimit(count) == count > RATE_LIMIT

\* The two middlewares in order: the outcome of the gate for one request.
Guard(ip) ==
  IF IsBlocked(ip)
  THEN [allowed |-> FALSE, counts |-> requestCounts, blocked |-> blockedIPs]
  ELSE IF ip \notin DOMAIN requestCounts
  THEN [allowed |-> TRUE,
        counts |-> [x \in DOMAIN requestCounts \cup {ip} |->
                      IF x = ip THEN [count |-> 1, startTime |-> now]
                      ELSE requestCounts[x]],
        blocked |-> blockedIPs]
  ELSE LET data == [requestCounts[ip] EXCEPT !.count = @ + 1]
       IN IF WindowElapsed(now, data.startTime)
          THEN [allowed |-> TRUE,
                counts |-> [requestCounts EXCEPT ![ip] = [count |-> 1, startTime |-> now]],
                blocked |-> blockedIPs]
          ELSE IF OverLimit(data.count)
          THEN [allowed |-> FALSE,
                counts |-> [requestCounts EXCEPT ![ip] = data],
                blocked |-> blockedIPs \cup {ip}]
          ELSE [allowed |-> TRUE,
                counts |-> [requestCounts EXCEPT ![ip] = data],
                blocked |-> blockedIPs]

\* -------------------------------------------------------------------- Router
activeServers == SelectSeq(ServerSeq, LAMBDA s : active[s])

\* mutant: the url of the cookie is not compared
StickyMatchAnyActive(s, stickyServer) == active[s]

\* servers.find(server => server.url === stickyServer && server.active)
StickyMatch(s, stickyServer) == Url(s) = stickyServer /\ active[s]

StickyLookup(cookie) ==
  IF cookie = NoCookie THEN NoServer
  ELSE LET stickyServer == decrypt(cookie)
           hits == {s \in Servers : StickyMatch(s, stickyServer)}
       IN IF hits = {} THEN NoServer
          ELSE CHOOSE s \in hits : \A o \in hits : s <= o

\* mutant: the reducer keeps prev on a tie
LeastOfKeepFirst(prev, curr) == IF connections[prev] <= connections[curr] THEN prev ELSE curr

\* mutant: the comparison is reversed
MostOf(prev, curr) == IF connections[prev] > connections[curr] THEN prev ELSE curr

\* the reducer of getLeastLoadedServer
LeastOf(prev, curr) == IF connections[prev] < connections[curr] THEN prev ELSE curr

RECURSIVE Reduce(_, _)
Reduce(prev, rest) ==
  IF rest = << >> THEN prev
  ELSE Reduce(LeastOf(prev, Head(rest)), Tail(rest))

getLeastLoadedServer ==
  IF Len(activeServers) = 0 THEN NoServer
  ELSE Reduce(Head(activeServers), Tail(activeServers))

\* activeServers[currentServerIndex]: undefined when the index is out of range
RoundRobinPick ==
  IF currentServerIndex < Len(activeServers)
  THEN activeServers[currentServerIndex + 1]
  ELSE NoServer

RoundRobinAdvance == (currentServerIndex + 1) % Len(activeServers)

\* The proxy handler up to proxy.web: status "fwd" is a dispatch to server.
Route(cookie) ==
  LET sticky == StickyLookup(cookie)
  IN IF sticky # NoServer
     THEN [status |-> "fwd", server |-> sticky, cookie |-> NoCookie,
           sticky |-> TRUE, cursor |-> currentServerIndex]
     ELSE IF Len(activeServers) = 0
     THEN [status |-> "503", server |-> NoServer, cookie |-> NoCookie,
           sticky |-> FALSE, cursor |-> currentServerIndex]
     ELSE IF variant = "LC"
     THEN LET s == getLeastLoadedServer
          IN [status |-> "fwd", server |-> s, cookie |-> encrypt(Url(s)),
              sticky |-> FALSE, cursor |-> currentServerIndex]
     ELSE LET s == RoundRobinPick
          IN IF s = NoServer
             THEN \* assignedServer.url throws a TypeError after the cursor moved
                  [status |-> "500", server |-> NoServer, cookie |-> NoCookie,
                   sticky |-> FALSE, cursor |-> RoundRobinAdvance]
             ELSE [status |-> "fwd", server |-> s, cookie |-> encrypt(Url(s)),
                   sticky |-> FALSE, cursor |-> RoundRobinAdvance]

\* ------------------------------------------------------------- construction
\* config/server.js is not part of the sources: the pool is static, every
\* descriptor starts with some configured availability and no connection.
InitialConnections == [s \in Servers |-> 0]

NoRequest ==
  [client |-> "none", tok |-> NoCookie, status |-> "none", server |-> NoServer,
   cookie |-> NoCookie, sticky |-> FALSE, nth |-> 0, inWindow |-> FALSE,
   wasBlocked |-> FALSE, elapsed |-> FALSE, bound |-> NoServer,
   pre |-> [active |-> [s \in Servers |-> FALSE],
            connections |-> InitialConnections, cursor |-> 0, prevSel |-> NoServer]]

\* everything but the rate records
Construction ==
  /\ variant \in Variants
  /\ IV \in IVs
  /\ now = 0
  /\ blockedIPs = {}
  /\ active \in [Servers -> BOOLEAN]
  /\ connections = InitialConnections
  /\ currentServerIndex = 0
  /\ pending = [s \in Servers |-> 0]
  /\ hc = {}
  /\ last = NoRequest
  /\ issued = [c \in Clients |-> {}]
  /\ prevSel = NoServer
  /\ nreq = 0

\* the state after construction
Init ==
  /\ Construction
  /\ requestCounts = << >>
  /\ sent = [c \in Clients |-> 0]

\* A process that has served for a while within the first window: some
\* clients have already sent RATE_LIMIT - Headroom requests at time 0, each
\* answered 503 while no backend was available, so that nothing but their
\* rate records changed; the health check has since found every backend
\* healthy.
Busy == [count |-> RATE_LIMIT - Headroom, startTime |-> 0]

InitGuard ==
  /\ Construction
  /\ active = [s \in Servers |-> TRUE]
  /\ \E D \in SUBSET Clients : requestCounts = [c \in D |-> Busy]
  /\ sent = [c \in Clients |-> IF c \in DOMAIN requestCounts THEN Busy.count ELSE 0]

\* ------------------------------------------------------------ request path
RECURSIVE Sum(_, _)
Sum(f, S) == IF S = {} THEN 0 ELSE LET x == CHOOSE x \in S : TRUE IN f[x] + Sum(f, S \ {x})

PendingTotal == Sum(pending, Servers)

BoundTo(ip, cookie) ==
  LET hits == {s \in Servers : <<s, cookie>> \in issued[ip]}
  IN IF hits = {} THEN NoServer ELSE CHOOSE s \in hits : TRUE

\* mutant: a record is taken as expired at the last instant of its window
ExpiredAtWindow(ip) == now - requestCounts[ip].startTime >= TIME_WINDOW

\* now - data.startTime > TIME_WINDOW for the record of ip
Expired(ip) == WindowElapsed(now, requestCounts[ip].startTime)

\* connections++ of the proxy handler
Dispatched(s) == [connections EXCEPT ![s] = @ + 1]

\* One request through the middleware chain: the blocked-IP check and the
\* rate limiter (Guard), then the proxy handler (Route) and proxy.web.
Request(ip, cookie) ==
  LET g == Guard(ip)
      r == Route(cookie)
      fresh == g.allowed /\ g.counts[ip].count = 1
      inWin == ip \in DOMAIN g.counts /\ ~(now - g.counts[ip].startTime > TIME_WINDOW)
      nth == IF fresh THEN 1 ELSE sent[ip] + 1
      fwd == g.allowed /\ r.status = "fwd"
      policy == g.allowed /\ ~r.sticky /\ r.status \in {"fwd", "500"}
  IN /\ requestCounts' = g.counts
     /\ blockedIPs' = g.blocked
     /\ sent' = [sent EXCEPT ![ip] = nth]
     /\ currentServerIndex' = IF g.allowed THEN r.cursor ELSE currentServerIndex
     /\ connections' = IF fwd /\ variant = "LC" THEN Dispatched(r.server) ELSE connections
     /\ pending' = IF fwd THEN [pending EXCEPT ![r.server] = @ + 1] ELSE pending
     /\ issued' = IF g.allowed /\ r.cookie # NoCookie
                  THEN [issued EXCEPT ![ip] = @ \cup {<<r.server, r.cookie>>}]
                  ELSE issued
     /\ prevSel' = IF policy THEN r.server ELSE prevSel
     /\ last' = [client |-> ip, tok |-> cookie,
                 status |-> IF g.allowed THEN r.status ELSE "403",
                 server |-> IF g.allowed THEN r.server ELSE NoServer,
                 cookie |-> IF g.allowed THEN r.cookie ELSE NoCookie,
                 sticky |-> g.allowed /\ r.sticky,
                 nth |-> nth, inWindow |-> inWin,
                 wasBlocked |-> ip \in blockedIPs,
                 elapsed |-> ip \in DOMAIN requestCounts /\ Expired(ip),
                 bound |-> BoundTo(ip, cookie),
                 pre |-> [active |-> active, connections |-> connections,
                          cursor |-> currentServerIndex, prevSel |-> prevSel]]
     /\ UNCHANGED <<variant, IV, now, active, hc>>

\* ------------------------------------------------------- forward completion
\* the backend answered: http-proxy pipes the response, no callback runs
ForwardSuccess(s) ==
  /\ pending[s] > 0
  /\ pending' = [pending EXCEPT ![s] = @ - 1]
  /\ last' = NoRequest
  /\ UNCHANGED connections
  /\ UNCHANGED <<variant, IV, now, requestCounts, blockedIPs, active,
                 currentServerIndex, hc, sent, issued, prevSel, nreq>>

\* mutant: the counter is released twice for one failure
ReleasedTwice(s) == [connections EXCEPT ![s] = @ - 2]

\* mutant: the failed forward is retried against the other backends
ReleasedAndRetried(s) ==
  [o \in Servers |-> IF o = s THEN connections[o] - 1 ELSE connections[o] + 1]

\* connections-- of the error callback given to proxy.web
Released(s) == [connections EXCEPT ![s] = @ - 1]

\* the callback given to proxy.web runs with the error: LC releases the
\* connection and answers 502, RR answers 500
ErrorCallback(s) ==
  connections' = IF variant = "LC" THEN Released(s) ELSE connections

ForwardError(s) ==
  /\ pending[s] > 0
  /\ pending' = [pending EXCEPT ![s] = @ - 1]
  /\ ErrorCallback(s)
  /\ last' = NoRequest
  /\ UNCHANGED <<variant, IV, now, requestCounts, blockedIPs, active,
                 currentServerIndex, hc, sent, issued, prevSel, nreq>>

\* the client went away: whether http-proxy then reports an error to the
\* callback depends on the library, so both outcomes are possible
ForwardAbandon(s, reported) ==
  /\ pending[s] > 0
  /\ pending' = [pending EXCEPT ![s] = @ - 1]
  /\ IF reported THEN ErrorCallback(s) ELSE UNCHANGED connections
  /\ last' = NoRequest
  /\ UNCHANGED <<variant, IV, now, requestCounts, blockedIPs, active,
                 currentServerIndex, hc, sent, issued, prevSel, nreq>>

\* ------------------------------------------------------------------- timers
\* a step that handles no request
Quiet == last' = NoRequest

Tick ==
  /\ now < MaxTicks * TickStep
  /\ now' = now + TickStep
  /\ Quiet
  /\ UNCHANGED <<variant, IV, requestCounts, blockedIPs, active, connections,
                 currentServerIndex, pending, hc, sent, issued, prevSel, nreq>>

\* the periodic unblocking (RR only)
Reaper ==
  /\ variant = "RR"
  /\ LET gone == {ip \in DOMAIN requestCounts : Expired(ip)}
     IN /\ requestCounts' = [ip \in DOMAIN requestCounts \ gone |-> requestCounts[ip]]
        /\ blockedIPs' = blockedIPs \ gone
        /\ sent' = [c \in Clients |-> IF c \in gone THEN 0 ELSE sent[c]]
  /\ Quiet
  /\ UNCHANGED <<variant, IV, now, active, connections, currentServerIndex,
                 pending, hc, issued, prevSel, nreq>>

\* setInterval(() => healthCheck(servers), 10000): an invocation starts at
\* the first server and awaits its probe; invocations overlap when one is
\* still awaiting as the timer fires again
HealthStart ==
  /\ hc' = hc \cup {1}
  /\ Quiet
  /\ UNCHANGED <<variant, IV, now, requestCounts, blockedIPs, active, connections,
                 currentServerIndex, pending, sent, issued, prevSel, nreq>>

\* mutant: every 2xx status counts as healthy
HealthyAny2xx(result) == result \in 200 .. 299

\* server.active = response.status === 200, false in the catch
Healthy(result) == result = 200

\* The probe of server s awaited by an invocation returns (axios resolves or
\* rejects) and its loop goes on to the next server; others tells whether
\* further invocations still await a probe of s.
ProbeReturn(s, result, others) ==
  /\ s \in hc
  /\ active' = [active EXCEPT ![s] = Healthy(result)]
  /\ hc' = (IF others THEN hc ELSE hc \ {s}) \cup (IF s = NumServers THEN {} ELSE {s + 1})
  /\ prevSel' = IF active' = active THEN prevSel ELSE NoServer
  /\ Quiet
  /\ UNCHANGED <<variant, IV, now, requestCounts, blockedIPs, connections,
                 currentServerIndex, pending, sent, issued, nreq>>

\* ----------------------------------------------------------- specifications
ForgedCookies == {Garbled, 5, 8, 12}

Cookies(ip) == {NoCookie} \cup {p[2] : p \in issued[ip]} \cup ForgedCookies

Arrive(ip, cookie) ==
  /\ nreq < MaxRequests
  /\ PendingTotal < MaxInFlight
  /\ nreq' = nreq + 1
  /\ Request(ip, cookie)

Next ==
  \/ \E ip \in Clients : \E cookie \in Cookies(ip) : Arrive(ip, cookie)
  \/ \E s \in Servers : ForwardSuccess(s)
  \/ \E s \in Servers : ForwardError(s)
  \/ \E s \in Servers : \E reported \in BOOLEAN : ForwardAbandon(s, reported)
  \/ HealthStart
  \/ \E s \in Servers : \E result \in ProbeResults : \E others \in BOOLEAN :
       ProbeReturn(s, result, others)

Spec == Init /\ [][Next]_vars

\* The rate limiter at work: a burst of requests, without cookie or with a
\* token issued earlier, to slow backends (no forward completes meanwhile),
\* while time passes and the reaper runs.
GuardArrive(ip) ==
  /\ nreq < MaxBurst
  /\ nreq' = nreq + 1
  /\ Request(ip, NoCookie)

\* a client comes back with a token it was issued
TokenArrive(ip) ==
  /\ nreq < MaxBurst
  /\ nreq' = nreq + 1
  /\ \E p \in issued[ip] : Request(ip, p[2])

NextGuard ==
  \/ \E ip \in Clients : GuardArrive(ip)
  \/ \E ip \in Clients : TokenArrive(ip)
  \/ Tick
  \/ Reaper

SpecGuard == InitGuard /\ [][NextGuard]_vars

\* The least-connections server alone, with its one timer (the health
\* check), in front of healthy backends: time advances, the timer fires,
\* probes return 200 and forwards complete.
InitLC == InitGuard /\ variant = "LC" /\ DOMAIN requestCounts = Clients

NextLC ==
  \/ \E ip \in Clients : GuardArrive(ip)
  \/ \E s \in Servers : ForwardSuccess(s)
  \/ \E s \in Servers : ForwardError(s)
  \/ Tick
  \/ HealthStart
  \/ \E s \in Servers : ProbeReturn(s, 200, FALSE)

FairSpecLC ==
  /\ InitLC
  /\ [][NextLC]_vars
  /\ WF_vars(Tick)
  /\ WF_vars(HealthStart)
  /\ \A s \in Servers : WF_vars(ProbeReturn(s, 200, FALSE))
  /\ \A s \in Servers : WF_vars(ForwardSuccess(s) \/ ForwardError(s))

\* The codec at work in a process that drew any IV: requests with and
\* without tokens to slow backends whose availability does not change.
InitCodec ==
  /\ variant \in Variants
  /\ IV \in 0 .. (BlockSize - 1)
  /\ now = 0
  /\ requestCounts = << >>
  /\ blockedIPs = {}
  /\ active \in [Servers -> BOOLEAN]
  /\ connections = InitialConnections
  /\ currentServerIndex = 0
  /\ pending = [s \in Servers |-> 0]
  /\ hc = {}
  /\ last = NoRequest
  /\ sent = [c \in Clients |-> 0]
  /\ issued = [c \in Clients |-> {}]
  /\ prevSel = NoServer
  /\ nreq = 0

CodecArrive(ip, cookie) ==
  /\ nreq < MaxRequests
  /\ nreq' = nreq + 1
  /\ Request(ip, cookie)

NextCodec == \E ip \in Clients : \E cookie \in Cookies(ip) : CodecArrive(ip, cookie)

SpecCodec == InitCodec /\ [][NextCodec]_vars

\* The health monitor in front of a first registered backend that may hang:
\* the timer keeps firing and every probe of the other backends returns
\* (axios resolves or rejects); nothing is assumed of the probes of the
\* first backend, which may never return (axios.get is called without
\* timeout).
FairSpecHC ==
  /\ Init
  /\ [][Next]_vars
  /\ WF_vars(HealthStart)
  /\ \A s \in Servers \ {1} :
       WF_vars(\E result \in ProbeResults : \E others \in BOOLEAN :
                 ProbeReturn(s, result, others))

\* ------------------------------------------------------------------ claims
Handled == last.client # "none"

\* the request just handled reached the selection policy (no sticky override,
\* some backend available)
PolicySelection == Handled /\ ~last.sticky /\ last.status \in {"fwd", "500"}

Available(pre) == {s \in Servers : pre.active[s]}

MinLoaded(pre) ==
  {s \in Available(pre) : \A o \in Available(pre) : pre.connections[s] <= pre.connections[o]}

\* C1: among the requests a client sends while no more than TIME_WINDOW has
\* elapsed since its record's windowStart, exactly the first RATE_LIMIT are
\* let through to routing; the later ones are answered 403, however the
\* requests of other clients interleave.
C1_RateLimit ==
  (Handled /\ last.inWindow) =>
    ((last.status # "403") <=> (last.nth <= RATE_LIMIT))

\* the 101st request of a window is rejected at the last instant of the
\* window, after another client was served in between
C1_Witness ==
  /\ Handled /\ last.inWindow /\ last.nth = RATE_LIMIT + 1 /\ last.status = "403"
  /\ now = requestCounts[last.client].startTime + TIME_WINDOW
  /\ \E o \in Clients \ {last.client} : sent[o] > 0

\* C2 as claimed: in the round-robin server a request from a Blocked client,
\* more than TIME_WINDOW after its windowStart, is let through, resets the
\* record to {count: 1, windowStart: now} and clears the Blocked status.
C2_RolloverUnblocks ==
  (Handled /\ variant = "RR" /\ last.wasBlocked /\ last.elapsed) =>
    /\ last.status # "403"
    /\ last.client \notin blockedIPs
    /\ last.client \in DOMAIN requestCounts
    /\ requestCounts[last.client] = [count |-> 1, startTime |-> now]

\* C2 as amended: in the round-robin server a request from a Blocked client
\* is answered 403 and changes neither its record nor its Blocked status,
\* even when more than TIME_WINDOW has elapsed since its windowStart; only a
\* reaper run after that time clears the Blocked status (deleting the
\* record), and a request of a client without a record is let through and
\* creates {count: 1, windowStart: now}.
C2_BlockedUntilReaper ==
  [][variant = "RR" =>
       /\ \A c \in blockedIPs :
            /\ (last'.client = c =>
                  /\ last'.status = "403"
                  /\ requestCounts' = requestCounts
                  /\ blockedIPs' = blockedIPs)
            /\ (c \notin blockedIPs' =>
                  /\ Reaper
                  /\ Expired(c)
                  /\ c \notin DOMAIN requestCounts')
       /\ \A c \in Clients \ DOMAIN requestCounts :
            last'.client = c =>
              /\ last'.status # "403"
              /\ requestCounts'[c] = [count |-> 1, startTime |-> now]]_vars

\* a Blocked client is rejected although its window has elapsed
C2_Witness ==
  Handled /\ variant = "RR" /\ last.wasBlocked /\ last.elapsed /\ last.status = "403"

\* C3 as claimed: in the least-connections server every client that enters
\* the BlockSet eventually leaves it.
C3_BlockingIsTemporary ==
  \A c \in Clients : (c \in blockedIPs) ~> (c \notin blockedIPs)

\* C4 as claimed: when several available backends share the minimum
\* connections value at selection time, getLeastLoadedServer returns the one
\* registered earliest.
C4_TieEarliest ==
  (PolicySelection /\ variant = "LC" /\ Cardinality(MinLoaded(last.pre)) >= 2) =>
    \A o \in MinLoaded(last.pre) : last.server <= o

\* C4 as amended: when several available backends share the minimum
\* connections value at selection time, getLeastLoadedServer returns the one
\* registered latest.
C4_TieLatest ==
  (PolicySelection /\ variant = "LC" /\ Cardinality(MinLoaded(last.pre)) >= 2) =>
    /\ last.server \in MinLoaded(last.pre)
    /\ \A o \in MinLoaded(last.pre) : last.server >= o

\* a tie at a non-zero load, resolved
C4_Witness ==
  /\ PolicySelection /\ variant = "LC"
  /\ Cardinality(MinLoaded(last.pre)) >= 2
  /\ \E s \in MinLoaded(last.pre) : last.pre.connections[s] > 0
  /\ last.server = NumServers

\* C5: whenever at least one backend is available, getLeastLoadedServer
\* returns an available backend whose connections value is at most that of
\* every available backend at selection time.
C5_Minimal ==
  (Handled /\ variant = "LC" /\ ~last.sticky /\ last.status # "403"
     /\ Available(last.pre) # {}) =>
    /\ last.status = "fwd"
    /\ last.server \in MinLoaded(last.pre)

\* the earlier backend is chosen because it is strictly less loaded
C5_Witness ==
  /\ PolicySelection /\ variant = "LC"
  /\ \E o \in Available(last.pre) :
       /\ o > last.server
       /\ last.pre.connections[o] > last.pre.connections[last.server]

\* C6 as claimed: in the least-connections server connections of every
\* backend equals the number of forwards dispatched to it and not yet
\* completed.
C6_InFlightExact ==
  variant = "LC" => \A s \in Servers : connections[s] = pending[s]

\* C7: in the least-connections server connections of every backend is never
\* negative.
C7_NonNegative ==
  variant = "LC" => \A s \in Servers : connections[s] >= 0

\* a backend was dispatched to, its forward failed, and the error callback
\* brought its counter back to 0 while another forward is in flight
C7_Witness ==
  /\ variant = "LC"
  /\ \E s \in Servers :
       /\ connections[s] = 0 /\ pending[s] = 0
       /\ \E c \in Clients : \E t \in 0 .. (BlockSize - 1) : <<s, t>> \in issued[c]
  /\ \E o \in Servers : pending[o] > 0

\* C8 as claimed: in the round-robin server, at every policy selection the
\* cursor is an index into the current available set, and a selection over a
\* non-empty available set yields a backend.
C8_CursorInRange ==
  (PolicySelection /\ variant = "RR") =>
    /\ last.pre.cursor < Cardinality(Available(last.pre))
    /\ last.server \in Available(last.pre)

\* the available backend that follows s in registration order, cyclically
NextAvailable(pre, s) ==
  LET later == {o \in Available(pre) : o > s}
      from == IF later = {} THEN Available(pre) ELSE later
  IN CHOOSE o \in from : \A x \in from : o <= x

\* C9 as claimed: in the round-robin server, while availability does not
\* change, every policy selection returns an available backend, and it is
\* the one that follows the previously selected backend in registration
\* order, cyclically.
C9_RoundRobinOrder ==
  (PolicySelection /\ variant = "RR") =>
    /\ last.server \in Available(last.pre)
    /\ (last.pre.prevSel # NoServer =>
          last.server = NextAvailable(last.pre, last.pre.prevSel))

\* C10: a request let through by the AbuseGuard that presents a token issued
\* earlier to that client for backend B is forwarded to B whenever B is
\* available at that time, whatever the cursor and the connection counts.
C10_Sticky ==
  (Handled /\ last.status # "403" /\ last.bound # NoServer
     /\ last.pre.active[last.bound]) =>
    /\ last.status = "fwd"
    /\ last.server = last.bound
    /\ last.sticky

\* the token wins over the policy: the policy would have picked the other
\* backend, and another client was served since the token was issued
C10_Witness ==
  /\ Handled /\ last.sticky /\ last.server = last.bound
  /\ Cardinality(Available(last.pre)) >= 2
  /\ \/ variant = "RR" /\ last.pre.cursor # last.server - 1
     \/ variant = "LC" /\ last.server \notin MinLoaded(last.pre)
  /\ \E o \in Clients \ {last.client} : sent[o] > 0

\* C11 as claimed: in both servers a request that passes the AbuseGuard is
\* answered 503 exactly when no backend is available at selection time, and
\* is otherwise forwarded to a backend available at selection time, also
\* when it carries a valid token bound to a backend that is unavailable.
C11_SelectionOutcome ==
  (Handled /\ last.status # "403") =>
    /\ (last.status = "503" <=> Available(last.pre) = {})
    /\ (Available(last.pre) # {} =>
          /\ last.status = "fwd"
          /\ last.server \in Available(last.pre))

\* the tokens that are the encoding of a known backend
Tokens == {encrypt(Url(s)) : s \in Servers}

\* C12: in both servers a request whose token is not the encoding of a known
\* backend (malformed, tampered, or decoding to an unknown identity) is
\* handled exactly like a request without token from the same state: the
\* same gate outcome, the same selected backend and response status, the
\* same updates of the rate records, the BlockSet, the counters and the
\* cursor, a fresh token whenever a backend is selected, no sticky override.
C12_InvalidAsAbsent ==
  [][\A ip \in Clients : \A cookie \in ForgedCookies \ Tokens :
       (last'.client = ip /\ last'.tok = cookie) =>
         LET g == Guard(ip)
             r == Route(NoCookie)
         IN /\ requestCounts' = g.counts
            /\ blockedIPs' = g.blocked
            /\ ~last'.sticky
            /\ last'.status = (IF g.allowed THEN r.status ELSE "403")
            /\ last'.server = (IF g.allowed THEN r.server ELSE NoServer)
            /\ last'.cookie = (IF g.allowed THEN r.cookie ELSE NoCookie)
            /\ (last'.status = "fwd" => last'.cookie = encrypt(Url(last'.server)))
            /\ currentServerIndex' = (IF g.allowed THEN r.cursor ELSE currentServerIndex)
            /\ connections' = (IF g.allowed /\ r.status = "fwd" /\ variant = "LC"
                               THEN Dispatched(r.server) ELSE connections)
            /\ pending' = (IF g.allowed /\ r.status = "fwd"
                           THEN [pending EXCEPT ![r.server] = @ + 1] ELSE pending)
            /\ active' = active]_vars

\* a token that decodes to an unknown identity is presented while the
\* backend a valid token would name is available: the policy selects and a
\* fresh token is issued
C12_Witness ==
  /\ Handled /\ last.tok \in ForgedCookies \ Tokens
  /\ decrypt(last.tok) \notin Servers \cup {null}
  /\ last.status = "fwd" /\ ~last.sticky /\ last.cookie \in Tokens
  /\ Cardinality(Available(last.pre)) >= 2

\* C13 as claimed: a probe that never returns does not prevent the probes of
\* the other backends: whenever a monitor cycle is running, the probe of
\* every backend is eventually issued (and so can update its availability),
\* even if the probe of another backend hangs.
C13_ProbesIndependent ==
  \A s \in Servers : (hc # {}) ~> (s \in hc)

\* C14: when an awaited probe of a backend completes, that backend's active
\* flag becomes true if and only if the probe returned status 200 (any
\* other status, and a connection error or timeout, here 0, make it false),
\* and the flag of every other backend is left as it was.
C14_Classification ==
  [][\A s \in hc : \A result \in ProbeResults : \A others \in BOOLEAN :
       ProbeReturn(s, result, others) =>
         /\ active'[s] <=> (result = 200)
         /\ \A o \in Servers \ {s} : active'[o] = active[o]]_vars

\* the first backend was available when a request was dispatched to it; its
\* probe has since failed while that forward is in flight, the invocation
\* went on to the last backend, whose flag is still true
C14_Witness ==
  /\ pending[1] > 0 /\ ~active[1]
  /\ hc = {NumServers} /\ active[NumServers]

\* C15: in both servers no request-handling step (the gate, selection and
\* dispatch of a request; the completion of a forward, failed or not)
\* changes a backend's active flag, which only a returning health probe
\* changes; and the completion of a forward dispatches nothing: no
\* backend's connections or in-flight count grows in that step.
C15_AvailabilityFrame ==
  [][/\ (last'.client # "none" => active' = active)
     /\ (PendingTotal' < PendingTotal =>
           /\ active' = active
           /\ \A s \in Servers :
                pending'[s] <= pending[s] /\ connections'[s] <= connections[s])
     /\ (active' # active =>
           \E s \in Servers : \E result \in ProbeResults : \E others \in BOOLEAN :
             ProbeReturn(s, result, others))]_vars

\* the only request so far was dispatched to a backend, its forward failed
\* (the counter is back to 0) and the backend is still available
C15_Witness ==
  /\ variant = "LC" /\ nreq = 1 /\ PendingTotal = 0
  /\ \E s \in Servers : \E c \in Clients :
       /\ <<s, encrypt(Url(s))>> \in issued[c]
       /\ connections[s] = 0 /\ active[s]

\* C16: within one process (fixed key and IV) decrypt(encrypt(x)) = x for
\* every backend identity x, every token issued decodes to the identity of
\* the backend it was issued for, and encrypt is deterministic: all tokens
\* issued for one backend, to whichever client, are the same.
C16_RoundTrip ==
  /\ \A x \in Servers : decrypt(encrypt(Url(x))) = Url(x)
  /\ \A c \in Clients : \A p \in issued[c] : decrypt(p[2]) = Url(p[1])
  /\ \A c1 \in Clients : \A c2 \in Clients :
       \A p1 \in issued[c1] : \A p2 \in issued[c2] :
         p1[1] = p2[1] => p1[2] = p2[2]

\* under a non-zero IV two clients were issued a token for the same backend,
\* and one of them has just been routed by it
C16_Witness ==
  /\ IV # 0
  /\ Handled /\ last.sticky
  /\ \A c \in Clients : <<last.server, last.tok>> \in issued[c]

\* C17: in the round-robin server each reaper run deletes exactly the
\* records with now - windowStart > TIME_WINDOW and removes exactly those
\* clients from the BlockSet, blocked or not; the record and the block entry
\* of every client still within its window are left unchanged. So the time
\* of unblocking depends on the windowStart alone.
C17_ReaperStep ==
  [][Reaper =>
       \A c \in Clients :
         IF c \in DOMAIN requestCounts
              /\ now - requestCounts[c].startTime > TIME_WINDOW
         THEN c \notin DOMAIN requestCounts' /\ c \notin blockedIPs'
         ELSE /\ c \in DOMAIN requestCounts' <=> c \in DOMAIN requestCounts
              /\ c \in DOMAIN requestCounts => requestCounts'[c] = requestCounts[c]
              /\ c \in blockedIPs' <=> c \in blockedIPs]_vars

\* the reaper has deleted the record of a client that had been served,
\* while the record another client opened later, still within its window,
\* is in place
C17_Witness ==
  /\ variant = "RR" /\ now > TIME_WINDOW
  /\ last = NoRequest
  /\ \E c \in Clients : \E o \in Clients :
       /\ c \notin DOMAIN requestCounts /\ issued[c] # {} /\ sent[c] = 0
       /\ o \in DOMAIN requestCounts /\ ~Expired(o)
       /\ requestCounts[o].startTime > 0

\* C18: in both servers every request of a client that is in the BlockSet,
\* and the request that puts it there, is answered 403 and reaches neither
\* selection nor forwarding: the client stays blocked, no backend's
\* connections or in-flight count changes, the cursor does not move and no
\* token is issued, whatever token the request carries.
C18_BlockedNeverRouted ==
  [][\A c \in Clients :
       (last'.client = c /\ (c \in blockedIPs \/ c \in blockedIPs')) =>
         /\ last'.status = "403"
         /\ c \in blockedIPs'
         /\ connections' = connections
         /\ pending' = pending
         /\ currentServerIndex' = currentServerIndex
         /\ issued' = issued
         /\ last'.cookie = NoCookie]_vars

\* a blocked client is rejected although it presents the token it was
\* issued for a backend that is available
C18_Witness ==
  /\ Handled /\ last.wasBlocked /\ last.status = "403"
  /\ last.tok # NoCookie /\ last.bound # NoServer
  /\ last.pre.active[last.bound]

\* C19: in both servers a response carries a newly issued token if and only
\* if the request is forwarded to a backend chosen by the selection policy
\* (not by sticky override), and that token decodes to the identity of that
\* backend; a sticky-routed request issues no token and, in the round-robin
\* server, leaves the cursor where it was.
C19_TokenIssuance ==
  Handled =>
    /\ last.cookie # NoCookie <=> (last.status = "fwd" /\ ~last.sticky)
    /\ last.cookie # NoCookie =>
         /\ decrypt(last.cookie) = Url(last.server)
         /\ <<last.server, last.cookie>> \in issued[last.client]
    /\ last.sticky =>
         /\ last.cookie = NoCookie
         /\ variant = "RR" => currentServerIndex = last.pre.cursor

\* a request presents a valid token bound to a backend that is unavailable:
\* the policy picks another backend and a token for that one is issued
C19_Witness ==
  /\ Handled /\ last.status = "fwd" /\ ~last.sticky
  /\ last.bound # NoServer /\ ~last.pre.active[last.bound]
  /\ last.cookie # NoCookie /\ last.cookie # last.tok
  /\ decrypt(last.cookie) = Url(last.server)

\* C20: in both servers, in every reachable state, a client is in the
\* BlockSet if and only if it has a record whose count is RATE_LIMIT + 1;
\* no record's count exceeds RATE_LIMIT + 1 (the requests rejected while
\* blocked are not counted) and every record's count is at least 1.
C20_GuardConsistency ==
  \A c \in Clients :
    /\ c \in blockedIPs <=>
         (c \in DOMAIN requestCounts /\ requestCounts[c].count = RATE_LIMIT + 1)
    /\ c \in DOMAIN requestCounts =>
         (requestCounts[c].count >= 1 /\ requestCounts[c].count <= RATE_LIMIT + 1)

\* a client already blocked is rejected once more and its count stays at
\* RATE_LIMIT + 1, while another client has a record below the limit
C20_Witness ==
  /\ Handled /\ last.wasBlocked /\ last.nth >= RATE_LIMIT + 2
  /\ requestCounts[last.client].count = RATE_LIMIT + 1
  /\ \E o \in Clients \ {last.client} :
       /\ o \in DOMAIN requestCounts /\ o \notin blockedIPs
       /\ requestCounts[o].count <= RATE_LIMIT

====
